---------------------------- MODULE Spec2Model ----------------------------
(***************************************************************************)
(* Model of package configoration's section tree (section.go): path       *)
(* navigation over a tree of ConfigMaps, typed retrieval with coercion,   *)
(* default-valued getters, the per-section mutex, and the merge of the    *)
(* per-source mappings that produces the tree.                            *)
(*                                                                         *)
(* Go strings are sequences of one-character strings, so that splitting,  *)
(* formatting and parsing are computed rather than assumed.               *)
(***************************************************************************)
EXTENDS Integers, Sequences, FiniteSets, TLC

VARIABLES
    tree,     \* the built tree: node id -> ConfigMap (key -> value); node 0 is the root
    cur,      \* the Section value the caller currently holds
    pc,       \* caller position: "idle" (about to call) or "returned" (holding a result)
    last,     \* the call that has just returned (or panicked)
    fault,    \* TRUE once a call has panicked (nil pointer dereference)
    thr,      \* concurrent callers: thread -> its call and position in it
    mtx,      \* concurrent callers: shared section object -> thread holding its mutex (0: free)
    acc,      \* merge phase: the destination mapping accumulated so far
    srcs,     \* merge phase: the sources still to be merged, in registration order
    merged    \* merge phase: the last merge step performed (dst, src, result)

vars == <<tree, cur, pc, last, fault, thr, mtx, acc, srcs, merged>>

-----------------------------------------------------------------------------
(* Bounds *)

\* Largest number of delimiter-separated segments in a path argument.
MaxSegs == 3
\* Number of concurrently calling threads.
NumThreads == 2
\* Largest number of sources folded by the merge phase.
MaxSources == 2

-----------------------------------------------------------------------------
(* Values stored in a ConfigMap (Go interface{} values) *)

NilV == [kind |-> "nil"]
StrV(s) == [kind |-> "string", s |-> s]
IntV(n) == [kind |-> "int", n |-> n]
BoolV(b) == [kind |-> "bool", b |-> b]
\* A float64 as a normalised decimal: mant * 10^(-scale).
FloatV(mant, scale) == [kind |-> "float64", mant |-> mant, scale |-> scale]
\* A nested ConfigMap; Go maps are references, so the value names the node.
MapV(node) == [kind |-> "ConfigMap", node |-> node]

\* The two error values the section code itself can produce or pass on.
NoErr == [kind |-> "nil"]
ErrNil == [kind |-> "ErrNil"]
ErrInvalidType == [kind |-> "ErrInvalidType"]
\* *strconv.NumError as returned by Atoi / ParseBool / ParseFloat.
NumError(fn, s) == [kind |-> "NumError", Func |-> fn, Num |-> s, Err |-> "ErrSyntax"]

\* Section interface values.
Section(node) == [kind |-> "section", m |-> node]   \* non-nil *section
NilPtr == [kind |-> "nilptr"]                        \* (*section)(nil), also when boxed in Section
NilIface == [kind |-> "nil"]                         \* Section(nil): the nil interface

\* The package-level path delimiter.
Delimiter == ":"

-----------------------------------------------------------------------------
(* Strings *)

Digits == <<"0", "1", "2", "3", "4", "5", "6", "7", "8", "9">>

IsDigit(c) == \E i \in 1..10 : Digits[i] = c

DigitVal(c) == (CHOOSE i \in 1..10 : Digits[i] = c) - 1

\* Byte order of the characters that occur in keys of the model's trees.
Ascii == <<" ", "-", ".", "0", "1", "2", "3", "4", "5", "6", "7", "8", "9",
           ":", "<", ">", "[", "]", "a", "b", "c", "e", "f", "g", "x", "y", "z">>

Ord(c) == CHOOSE i \in 1..Len(Ascii) : Ascii[i] = c

\* s < t in Go's string order (bytewise, a proper prefix first).
RECURSIVE StrLess(_, _)
StrLess(s, t) ==
    IF t = <<>> THEN FALSE
    ELSE IF s = <<>> THEN TRUE
    ELSE IF Head(s) # Head(t) THEN Ord(Head(s)) < Ord(Head(t))
    ELSE StrLess(Tail(s), Tail(t))

\* strings.Split(key, Delimiter) for the one-character Delimiter: always at
\* least one element, empty segments kept.
RECURSIVE Split(_)
Split(key) ==
    IF \A i \in 1..Len(key) : key[i] # Delimiter THEN <<key>>
    ELSE LET p == CHOOSE i \in 1..Len(key) :
                      /\ key[i] = Delimiter
                      /\ \A j \in 1..(i - 1) : key[j] # Delimiter
         IN  <<SubSeq(key, 1, p - 1)>> \o Split(SubSeq(key, p + 1, Len(key)))

splitSections(key) == Split(key)

\* Decimal digits of a natural number.
RECURSIVE NatToStr(_)
NatToStr(n) ==
    IF n < 10 THEN <<Digits[n + 1]>>
    ELSE NatToStr(n \div 10) \o <<Digits[(n % 10) + 1]>>

IntToStr(n) == IF n < 0 THEN <<"-">> \o NatToStr(-n) ELSE NatToStr(n)

RECURSIVE Pow10(_)
Pow10(k) == IF k = 0 THEN 1 ELSE 10 * Pow10(k - 1)

\* n as exactly k decimal digits, zero-padded on the left.
RECURSIVE PadDigits(_, _)
PadDigits(n, k) ==
    IF k = 0 THEN <<>>
    ELSE PadDigits(n \div 10, k - 1) \o <<Digits[(n % 10) + 1]>>

\* %v of a float64 in the range where Go prints plain decimals.
FloatToStr(mant, scale) ==
    LET a == IF mant < 0 THEN -mant ELSE mant
        sign == IF mant < 0 THEN <<"-">> ELSE <<>>
    IN  IF scale = 0 THEN sign \o NatToStr(a)
        ELSE sign \o NatToStr(a \div Pow10(scale)) \o <<".">>
                  \o PadDigits(a % Pow10(scale), scale)

\* The value of a string of digits.
RECURSIVE DigitsVal(_)
DigitsVal(s) ==
    IF s = <<>> THEN 0
    ELSE 10 * DigitsVal(SubSeq(s, 1, Len(s) - 1)) + DigitVal(s[Len(s)])

AllDigits(s) == \A i \in 1..Len(s) : IsDigit(s[i])

\* The smallest element of a non-empty set of strings, and the set in order.
MinStr(S) == CHOOSE s \in S : \A t \in S : t = s \/ StrLess(s, t)

RECURSIVE SortedStrs(_)
SortedStrs(S) ==
    IF S = {} THEN <<>>
    ELSE <<MinStr(S)>> \o SortedStrs(S \ {MinStr(S)})

-----------------------------------------------------------------------------
(* Conversions: fmt.Sprintf("%v", v) and the strconv parsers *)

\* Appends the elements of a sequence of strings, sep between neighbours.
RECURSIVE JoinStrs(_, _)
JoinStrs(ss, sep) ==
    IF ss = <<>> THEN <<>>
    ELSE IF Len(ss) = 1 THEN ss[1]
    ELSE ss[1] \o sep \o JoinStrs(Tail(ss), sep)

\* fmt's %v: nil prints <nil>, a map prints map[k:v k:v] with sorted keys.
RECURSIVE FmtV(_, _)
FmtV(h, v) ==
    CASE v.kind = "nil" -> <<"<", "n", "i", "l", ">">>
      [] v.kind = "string" -> v.s
      [] v.kind = "int" -> IntToStr(v.n)
      [] v.kind = "bool" -> IF v.b THEN <<"t", "r", "u", "e">>
                            ELSE <<"f", "a", "l", "s", "e">>
      [] v.kind = "float64" -> FloatToStr(v.mant, v.scale)
      [] v.kind = "ConfigMap" ->
            LET m == h[v.node]
                ks == SortedStrs(DOMAIN m)
                ent == [i \in 1..Len(ks) |-> ks[i] \o <<":">> \o FmtV(h, m[ks[i]])]
            IN  <<"m", "a", "p", "[">> \o JoinStrs(ent, <<" ">>) \o <<"]">>

valToString(h, v) == FmtV(h, v)

\* strconv.Atoi: optional sign, then one or more decimal digits.  The range
\* error needs 19 digits and is out of reach of the strings of the model.
Atoi(s) ==
    LET body == IF s # <<>> /\ (s[1] = "-" \/ s[1] = "+") THEN Tail(s) ELSE s
    IN  IF body # <<>> /\ AllDigits(body)
        THEN [v |-> IF s[1] = "-" THEN -DigitsVal(body) ELSE DigitsVal(body),
              err |-> NoErr]
        ELSE [v |-> 0, err |-> NumError("Atoi", s)]

\* strconv.ParseBool: exactly these twelve literals.
ParseBool(s) ==
    IF s \in {<<"1">>, <<"t">>, <<"T">>, <<"T", "R", "U", "E">>,
              <<"t", "r", "u", "e">>, <<"T", "r", "u", "e">>}
    THEN [v |-> TRUE, err |-> NoErr]
    ELSE IF s \in {<<"0">>, <<"f">>, <<"F">>, <<"F", "A", "L", "S", "E">>,
                   <<"f", "a", "l", "s", "e">>, <<"F", "a", "l", "s", "e">>}
    THEN [v |-> FALSE, err |-> NoErr]
    ELSE [v |-> FALSE, err |-> NumError("ParseBool", s)]

\* Drops trailing zeros of a fraction: the float64 is the same number.
RECURSIVE Normalise(_, _)
Normalise(mant, scale) ==
    IF scale > 0 /\ mant % 10 = 0 THEN Normalise(mant \div 10, scale - 1)
    ELSE [mant |-> mant, scale |-> scale]

\* strconv.ParseFloat(s, 64) on plain decimals: optional sign, digits with at
\* most one point and at least one digit.  (Exponents, hexadecimal floats,
\* inf and nan are not among the strings of the model.)
ParseFloat(s) ==
    LET body == IF s # <<>> /\ (s[1] = "-" \/ s[1] = "+") THEN Tail(s) ELSE s
        neg == s # <<>> /\ s[1] = "-"
        dots == {i \in 1..Len(body) : body[i] = "."}
        ip == IF dots = {} THEN body
              ELSE SubSeq(body, 1, (CHOOSE i \in dots : TRUE) - 1)
        fp == IF dots = {} THEN <<>>
              ELSE SubSeq(body, (CHOOSE i \in dots : TRUE) + 1, Len(body))
        ok == /\ Cardinality(dots) <= 1
              /\ AllDigits(ip) /\ AllDigits(fp)
              /\ Len(ip) + Len(fp) >= 1
        n == Normalise(DigitsVal(ip \o fp), Len(fp))
    IN  IF ok
        THEN [v |-> FloatV(IF neg THEN -n.mant ELSE n.mant, n.scale), err |-> NoErr]
        ELSE [v |-> FloatV(0, 0), err |-> NumError("ParseFloat", s)]

-----------------------------------------------------------------------------
(* section: the operations of section.go.  Every operation takes the heap h *)
(* of ConfigMaps and hands back the heap it leaves behind.                  *)

\* Go's map index expression m[k]: the zero value (nil) for a missing key.
MapIndex(m, k) == IF k \in DOMAIN m THEN m[k] ELSE NilV

\* getSection with a type assertion that no stored value satisfies (the
\* decoder's map type instead of ConfigMap): no key ever yields a section.
getSection_WrongAssert(h, s, sec) == [h |-> h, s |-> NilPtr]

\* getSection remembering a miss: a missing key is stored as nil in the map.
getSection_StoresMiss(h, s, sec) ==
    [h |-> IF sec \in DOMAIN h[s.m] THEN h
           ELSE [h EXCEPT ![s.m] = (sec :> NilV) @@ h[s.m]],
     s |-> IF MapIndex(h[s.m], sec).kind = "ConfigMap"
           THEN Section(MapIndex(h[s.m], sec).node) ELSE NilPtr]

\* getSection: under the section's mutex, the child section at sec, or a nil
\* *section when sec is missing or does not hold a ConfigMap.
getSection(h, s, sec) ==
    LET v == MapIndex(h[s.m], sec)
    IN  [h |-> h,
         s |-> IF v.kind = "ConfigMap" THEN Section(v.node) ELSE NilPtr]

\* The loop of GetSection over the remaining selectors.  Leaving the loop
\* boxes the *section s (nil or not) in a Section; `return nil` inside the
\* loop yields the nil interface.
RECURSIVE GetSectionLoop(_, _, _)
GetSectionLoop(h, s, sels) ==
    IF sels = <<>> THEN [h |-> h, ret |-> s]
    ELSE IF s = NilPtr THEN [h |-> h, ret |-> NilIface]
    ELSE GetSectionLoop(getSection(h, s, Head(sels)).h,
                        getSection(h, s, Head(sels)).s, Tail(sels))

GetSection(h, s, key) == GetSectionLoop(h, s, splitSections(key))

\* The loop of GetValue over selectors[0 .. lenSelectors-2]: the section the
\* last selector is looked up in, or a nil *section as soon as one step fails.
RECURSIVE GetValueWalk(_, _, _)
GetValueWalk(h, s, sels) ==
    IF Len(sels) <= 1 THEN [h |-> h, s |-> s]
    ELSE IF getSection(h, s, Head(sels)).s = NilPtr
         THEN getSection(h, s, Head(sels))
         ELSE GetValueWalk(getSection(h, s, Head(sels)).h,
                           getSection(h, s, Head(sels)).s, Tail(sels))

\* The tail of GetValue testing v == nil instead of ok: a key that holds nil
\* is reported as missing.
GetValueLookup_NilIsMissing(w, sel) ==
    IF w.s = NilPtr THEN [h |-> w.h, v |-> NilV, err |-> ErrNil]
    ELSE IF MapIndex(w.h[w.s.m], sel) = NilV
         THEN [h |-> w.h, v |-> NilV, err |-> ErrNil]
         ELSE [h |-> w.h, v |-> w.h[w.s.m][sel], err |-> NoErr]

\* The tail of GetValue: under the mutex of the section w.s the walk ended
\* in, v, ok := s.m[sel].
GetValueLookup(w, sel) ==
    IF w.s = NilPtr THEN [h |-> w.h, v |-> NilV, err |-> ErrNil]
    ELSE IF sel \notin DOMAIN w.h[w.s.m]
         THEN [h |-> w.h, v |-> NilV, err |-> ErrNil]
         ELSE [h |-> w.h, v |-> w.h[w.s.m][sel], err |-> NoErr]

GetValue(h, s, key) ==
    IF s = NilPtr THEN [h |-> h, v |-> NilV, err |-> ErrNil]
    ELSE GetValueLookup(GetValueWalk(h, s, splitSections(key)),
                        splitSections(key)[Len(splitSections(key))])

\* What a typed getter returns when the type assertion on the value failed:
\* the result c of parsing the value's string form, with the parser's error.
Parsed(r, c) == [h |-> r.h, v |-> c.v, err |-> c.err]

\* The body of GetString after its GetValue call returned r.
StringOf(r) ==
    IF r.err # NoErr THEN [h |-> r.h, v |-> StrV(<<>>), err |-> r.err]
    ELSE IF r.v.kind = "string" THEN [h |-> r.h, v |-> r.v, err |-> NoErr]
    ELSE [h |-> r.h, v |-> StrV(valToString(r.h, r.v)), err |-> NoErr]

GetString(h, s, key) == StringOf(GetValue(h, s, key))

IntParse(c) == [v |-> IntV(c.v), err |-> c.err]

\* The body of GetInt after its GetValue call returned r.
IntOf(r) ==
    IF r.err # NoErr THEN [h |-> r.h, v |-> IntV(0), err |-> r.err]
    ELSE IF r.v.kind = "int" THEN [h |-> r.h, v |-> r.v, err |-> NoErr]
    ELSE Parsed(r, IntParse(Atoi(valToString(r.h, r.v))))

GetInt(h, s, key) == IntOf(GetValue(h, s, key))

BoolParse(c) == [v |-> BoolV(c.v), err |-> c.err]

\* The body of GetBool after its GetValue call returned r.
BoolOf(r) ==
    IF r.err # NoErr THEN [h |-> r.h, v |-> BoolV(FALSE), err |-> r.err]
    ELSE IF r.v.kind = "bool" THEN [h |-> r.h, v |-> r.v, err |-> NoErr]
    ELSE Parsed(r, BoolParse(ParseBool(valToString(r.h, r.v))))

GetBool(h, s, key) == BoolOf(GetValue(h, s, key))

\* The body of GetFloat64 after its GetValue call returned r.
Float64Of(r) ==
    IF r.err # NoErr THEN [h |-> r.h, v |-> FloatV(0, 0), err |-> r.err]
    ELSE IF r.v.kind = "float64" THEN [h |-> r.h, v |-> r.v, err |-> NoErr]
    ELSE Parsed(r, ParseFloat(valToString(r.h, r.v)))

GetFloat64(h, s, key) == Float64Of(GetValue(h, s, key))

\* The body shared by the five OrDef getters: r is the plain getter's result.
OrDef(r, def) ==
    [h |-> r.h, v |-> IF r.err # NoErr THEN def ELSE r.v, err |-> NoErr]

GetValueOrDef(h, s, key, def) == OrDef(GetValue(h, s, key), def)

GetStringOrDef(h, s, key, def) == OrDef(GetString(h, s, key), def)

GetIntOrDef(h, s, key, def) == OrDef(GetInt(h, s, key), def)

GetBoolOrDef(h, s, key, def) == OrDef(GetBool(h, s, key), def)

GetFloat64OrDef(h, s, key, def) == OrDef(GetFloat64(h, s, key), def)

IsNil(s) == s = NilPtr

-----------------------------------------------------------------------------
(* Inputs *)

\* Segment names used in path arguments: the keys "a" and "b", and the empty
\* segment that a leading, trailing or doubled delimiter produces.
SegNames == {<<>>, <<"a">>, <<"b">>}

RECURSIVE SeqsUpTo(_, _)
SeqsUpTo(S, n) ==
    IF n = 0 THEN {<<>>}
    ELSE LET shorter == SeqsUpTo(S, n - 1)
         IN  shorter \cup {Append(q, x) : q \in shorter, x \in S}

\* Every sequence of 1..MaxSegs segments, and the path string of each.
SegLists == SeqsUpTo(SegNames, MaxSegs) \ {<<>>}

PathOf(q) == JoinStrs(q, <<Delimiter>>)

Paths == {PathOf(q) : q \in SegLists}

\* {a: {a: {a: "abc", b: true}, b: "42", "": nil}, b: 42}
TreeDeep ==
    [n \in 0..2 |->
        CASE n = 0 -> (<<"a">> :> MapV(1)) @@ (<<"b">> :> IntV(42))
          [] n = 1 -> (<<"a">> :> MapV(2)) @@ (<<"b">> :> StrV(<<"4", "2">>))
                      @@ (<<>> :> NilV)
          [] n = 2 -> (<<"a">> :> StrV(<<"a", "b", "c">>)) @@ (<<"b">> :> BoolV(TRUE))]

\* {a: "true", b: 1.5, "": {a: 42.0, b: "1.5"}}
TreeFlat ==
    [n \in 0..1 |->
        CASE n = 0 -> (<<"a">> :> StrV(<<"t", "r", "u", "e">>)) @@ (<<"b">> :> FloatV(15, 1))
                      @@ (<<>> :> MapV(1))
          [] n = 1 -> (<<"a">> :> FloatV(42, 0)) @@ (<<"b">> :> StrV(<<"1", ".", "5">>))]

\* {}: a tree lacking every key.
TreeEmpty == [n \in 0..0 |-> <<>>]

\* {a: {a: false, b: "0"}, b: 0, "": ""}: zero values, and an empty string.
TreeZero ==
    [n \in 0..1 |->
        CASE n = 0 -> (<<"a">> :> MapV(1)) @@ (<<"b">> :> IntV(0)) @@ (<<>> :> StrV(<<>>))
          [] n = 1 -> (<<"a">> :> BoolV(FALSE)) @@ (<<"b">> :> StrV(<<"0">>))]

Trees == {TreeDeep, TreeFlat, TreeEmpty, TreeZero}

\* Default arguments tried with each OrDef getter.
Defaults(op) ==
    CASE op = "GetValueOrDef" -> {IntV(7), NilV}
      [] op = "GetStringOrDef" -> {StrV(<<"z">>), StrV(<<>>)}
      [] op = "GetIntOrDef" -> {IntV(7), IntV(0)}
      [] op = "GetBoolOrDef" -> {BoolV(TRUE), BoolV(FALSE)}
      [] op = "GetFloat64OrDef" -> {FloatV(25, 1), FloatV(0, 0)}
      [] OTHER -> {NilV}

-----------------------------------------------------------------------------
(* A caller using the Section interface *)

\* A call that returned normally: the heap it left, what it returned.
Returned(r) == [h |-> r.h, panic |-> FALSE, ret |-> r.v, err |-> r.err]

SectionResult(r) == [h |-> r.h, v |-> r.ret, err |-> NoErr]

\* A method call through the Section interface.  Calling through the nil
\* interface panics before any method body runs; a nil *section boxed in the
\* interface reaches the method with s == nil.
Invoke(h, recv, op, key, def) ==
    IF recv = NilIface
    THEN [h |-> h, panic |-> TRUE, ret |-> NilV, err |-> NoErr]
    ELSE CASE op = "GetSection" -> Returned(SectionResult(GetSection(h, recv, key)))
           [] op = "GetValue" -> Returned(GetValue(h, recv, key))
           [] op = "GetString" -> Returned(GetString(h, recv, key))
           [] op = "GetInt" -> Returned(GetInt(h, recv, key))
           [] op = "GetBool" -> Returned(GetBool(h, recv, key))
           [] op = "GetFloat64" -> Returned(GetFloat64(h, recv, key))
           [] op = "GetValueOrDef" -> Returned(GetValueOrDef(h, recv, key, def))
           [] op = "GetStringOrDef" -> Returned(GetStringOrDef(h, recv, key, def))
           [] op = "GetIntOrDef" -> Returned(GetIntOrDef(h, recv, key, def))
           [] op = "GetBoolOrDef" -> Returned(GetBoolOrDef(h, recv, key, def))
           [] op = "GetFloat64OrDef" -> Returned(GetFloat64OrDef(h, recv, key, def))
           [] op = "IsNil" ->
                [h |-> h, panic |-> FALSE, ret |-> BoolV(IsNil(recv)), err |-> NoErr]

NoCall == [op |-> "none"]

\* Methods the caller also invokes directly on the result of a GetSection
\* call made on the root, as in c.GetSection("g:e").GetBool("f").
ChainOps == {"GetSection", "GetValue", "IsNil"}

\* The caller invokes op on the Section it holds.  A section returned by
\* GetSection becomes the Section the caller holds (chained navigation).
\* A call chained directly on root.GetSection(P) records P in via.  A panic
\* ends the program: no call follows it.
Finish(o, op, key, def) ==
    /\ tree' = o.h
    /\ fault' = o.panic
    /\ last' = [op |-> op, recv |-> cur, key |-> key, def |-> def,
                ret |-> o.ret, err |-> o.err, panic |-> o.panic,
                via |-> IF pc = "returned" THEN <<last.key>> ELSE <<>>]
    /\ cur' = IF op = "GetSection" /\ ~o.panic THEN o.ret ELSE cur

Call(op, key, def) ==
    /\ \/ pc = "idle"
       \/ /\ pc = "returned"
          /\ last.op = "GetSection" /\ last.recv = Section(0) /\ last.via = <<>>
          /\ op \in ChainOps
    /\ Finish(Invoke(tree, cur, op, key, def), op, key, def)
    /\ pc' = "returned"
    /\ UNCHANGED <<thr, mtx, acc, srcs, merged>>

CallGetSection ==
    /\ ~fault
    /\ \E key \in Paths : Call("GetSection", key, NilV)

CallGetValue ==
    /\ ~fault
    /\ \E key \in Paths : Call("GetValue", key, NilV)

CallGetString ==
    /\ ~fault
    /\ \E key \in Paths : Call("GetString", key, NilV)

CallGetInt ==
    /\ ~fault
    /\ \E key \in Paths : Call("GetInt", key, NilV)

CallGetBool ==
    /\ ~fault
    /\ \E key \in Paths : Call("GetBool", key, NilV)

CallGetFloat64 ==
    /\ ~fault
    /\ \E key \in Paths : Call("GetFloat64", key, NilV)

CallGetValueOrDef ==
    /\ ~fault
    /\ \E key \in Paths, def \in Defaults("GetValueOrDef") : Call("GetValueOrDef", key, def)

CallGetStringOrDef ==
    /\ ~fault
    /\ \E key \in Paths, def \in Defaults("GetStringOrDef") : Call("GetStringOrDef", key, def)

CallGetIntOrDef ==
    /\ ~fault
    /\ \E key \in Paths, def \in Defaults("GetIntOrDef") : Call("GetIntOrDef", key, def)

CallGetBoolOrDef ==
    /\ ~fault
    /\ \E key \in Paths, def \in Defaults("GetBoolOrDef") : Call("GetBoolOrDef", key, def)

CallGetFloat64OrDef ==
    /\ ~fault
    /\ \E key \in Paths, def \in Defaults("GetFloat64OrDef") : Call("GetFloat64OrDef", key, def)

CallIsNil ==
    /\ ~fault
    /\ Call("IsNil", <<>>, NilV)

\* The caller uses the result (the example prints it) and is ready to call again.
UseResult ==
    /\ pc = "returned"
    /\ ~fault
    /\ pc' = "idle"
    /\ last' = NoCall
    /\ UNCHANGED <<tree, cur, fault, thr, mtx, acc, srcs, merged>>

\* The caller starts its next chain from the root section again.
FromRoot ==
    /\ pc = "idle"
    /\ ~fault
    /\ cur # Section(0)
    /\ cur' = Section(0)
    /\ UNCHANGED <<tree, pc, last, fault, thr, mtx, acc, srcs, merged>>

Idle == <<>>

Init ==
    /\ tree \in Trees
    /\ cur = Section(0)
    /\ pc = "idle"
    /\ last = NoCall
    /\ fault = FALSE
    /\ thr = Idle
    /\ mtx = Idle
    /\ acc = Idle
    /\ srcs = Idle
    /\ merged = Idle

Next ==
    \/ CallGetSection
    \/ CallGetValue
    \/ CallGetString
    \/ CallGetInt
    \/ CallGetBool
    \/ CallGetFloat64
    \/ CallGetValueOrDef
    \/ CallGetStringOrDef
    \/ CallGetIntOrDef
    \/ CallGetBoolOrDef
    \/ CallGetFloat64OrDef
    \/ CallIsNil
    \/ UseResult
    \/ FromRoot

Spec == Init /\ [][Next]_vars

-----------------------------------------------------------------------------
(* What the claims speak of: segments, chains of lookups, stored values *)

Front(q) == SubSeq(q, 1, Len(q) - 1)

LastOf(q) == q[Len(q)]

\* The segments a path argument was joined from.
SegsOf(key) == CHOOSE q \in SegLists : PathOf(q) = key

\* The node reached from node n when every segment of q in turn is a key
\* holding a nested mapping; -1 when some segment is missing or holds
\* anything else.
RECURSIVE Reach(_, _, _)
Reach(h, n, q) ==
    IF q = <<>> THEN n
    ELSE IF Head(q) \in DOMAIN h[n] /\ h[n][Head(q)].kind = "ConfigMap"
         THEN Reach(h, h[n][Head(q)].node, Tail(q))
         ELSE -1

\* The path q exists below node n: all but its last segment resolve to
\* nested mappings and its last segment is a key of the mapping reached.
Exists(h, n, q) ==
    /\ Reach(h, n, Front(q)) # -1
    /\ LastOf(q) \in DOMAIN h[Reach(h, n, Front(q))]

Stored(h, n, q) == h[Reach(h, n, Front(q))][LastOf(q)]

Absent(s) == s \in {NilPtr, NilIface}

PlainGetters == {"GetValue", "GetString", "GetInt", "GetBool", "GetFloat64"}

OrDefGetters == {"GetValueOrDef", "GetStringOrDef", "GetIntOrDef", "GetBoolOrDef",
                 "GetFloat64OrDef"}

PlainOf(op) ==
    CASE op = "GetValueOrDef" -> "GetValue"
      [] op = "GetStringOrDef" -> "GetString"
      [] op = "GetIntOrDef" -> "GetInt"
      [] op = "GetBoolOrDef" -> "GetBool"
      [] op = "GetFloat64OrDef" -> "GetFloat64"

Outcome(o) == <<o.ret, o.err>>

-----------------------------------------------------------------------------
(* Claims about the section tree, checked under Spec *)

\* C1: GetSection(P) on the root returns a section whose IsNil() is true iff
\* the chain of lookups along P's segments does not succeed fully, and
\* otherwise a section over exactly the mapping reached by the last segment.
C1_GetSectionAbsentIff ==
    /\ (last.op = "GetSection" /\ last.recv = Section(0) /\ last.via = <<>>
        /\ Reach(tree, 0, SegsOf(last.key)) # -1)
            => last.ret = Section(Reach(tree, 0, SegsOf(last.key)))
    /\ (last.op = "IsNil" /\ last.via # <<>>)
            => /\ ~last.panic
               /\ last.ret = BoolV(TRUE) <=> Reach(tree, 0, SegsOf(last.via[1])) = -1

\* C2: every operation invoked on an absent section completes without a
\* fault and produces absence: GetSection an absent section, the getters
\* ErrNil, the OrDef getters their default, IsNil true.
C2_AbsentSectionSafe ==
    (last.op # "none" /\ Absent(last.recv))
        => /\ ~last.panic
           /\ last.op = "GetSection" => Absent(last.ret)
           /\ last.op \in PlainGetters => last.err = ErrNil
           /\ last.op \in OrDefGetters => last.ret = last.def
           /\ last.op = "IsNil" => last.ret = BoolV(TRUE)

\* C3: GetValue(path) on a non-absent section returns (nil, ErrNil) when a
\* segment before the last is missing or no nested mapping, or the last
\* segment is no key of the last resolved mapping; otherwise it returns the
\* raw value stored under the last segment, scalar or mapping, and no error.
C3_GetValue ==
    (last.op = "GetValue" /\ last.recv.kind = "section")
        => /\ ~last.panic
           /\ IF Exists(tree, last.recv.m, SegsOf(last.key))
              THEN /\ last.err = NoErr
                   /\ last.ret = Stored(tree, last.recv.m, SegsOf(last.key))
              ELSE /\ last.err = ErrNil
                   /\ last.ret = NilV

\* GetValue returned a nested mapping found under a two-segment path.
C3_Witness ==
    /\ last.op = "GetValue" /\ last.recv = Section(0)
    /\ Len(SegsOf(last.key)) = 2
    /\ last.err = NoErr /\ last.ret.kind = "ConfigMap"

\* C4: for a path that resolves to a stored value, GetInt returns a stored
\* int directly, the base-10 parse of the value's string form when that
\* parse succeeds, and fails with ErrInvalidType when it does not; it fails
\* with ErrNil only when the path does not resolve.
C4_GetIntTyped ==
    (last.op = "GetInt" /\ last.recv.kind = "section")
        => IF ~Exists(tree, last.recv.m, SegsOf(last.key))
           THEN last.err = ErrNil
           ELSE IF Stored(tree, last.recv.m, SegsOf(last.key)).kind = "int"
           THEN /\ last.err = NoErr
                /\ last.ret = Stored(tree, last.recv.m, SegsOf(last.key))
           ELSE IF Atoi(valToString(tree, Stored(tree, last.recv.m, SegsOf(last.key)))).err = NoErr
           THEN /\ last.err = NoErr
                /\ last.ret = IntV(Atoi(valToString(tree,
                                 Stored(tree, last.recv.m, SegsOf(last.key)))).v)
           ELSE last.err = ErrInvalidType

\* C5: on every section, absent or not, each OrDef getter returns the
\* default when the plain getter returns an error, the plain getter's value
\* when it succeeds, and never surfaces an error or a fault.
C5_OrDefAbsorbs ==
    last.op \in OrDefGetters
        => /\ ~last.panic
           /\ last.err = NoErr
           /\ last.ret =
                IF Invoke(tree, last.recv, PlainOf(last.op), last.key, NilV).err # NoErr
                THEN last.def
                ELSE Invoke(tree, last.recv, PlainOf(last.op), last.key, NilV).ret

\* C7 as stated: for GetSection, GetValue and the typed getters alike, what
\* the caller observes for a path that does not exist differs from what it
\* observes for any path that exists, whatever that path holds.
C7_AbsenceDistinguishable ==
    (/\ last.op \in PlainGetters \cup {"GetSection"}
     /\ last.recv.kind = "section"
     /\ ~Exists(tree, last.recv.m, SegsOf(last.key)))
        => \A q \in SegLists :
              Exists(tree, last.recv.m, q)
                  => Outcome(Invoke(tree, last.recv, last.op, PathOf(q), NilV))
                       # Outcome(last)

\* C7 amended: GetValue and the typed getters on a non-absent section return
\* ErrNil exactly when the path does not exist (an existing path gives
\* success, also for nil and zero values, or a parse error); GetSection
\* returns the same nil section for a missing last segment as for one that
\* holds a scalar in the same mapping.
C7_Amended ==
    /\ (last.op \in PlainGetters /\ last.recv.kind = "section")
            => (last.err = ErrNil <=> ~Exists(tree, last.recv.m, SegsOf(last.key)))
    /\ (/\ last.op = "GetSection" /\ last.recv.kind = "section"
        /\ Reach(tree, last.recv.m, Front(SegsOf(last.key))) # -1
        /\ ~Exists(tree, last.recv.m, SegsOf(last.key)))
            => /\ last.ret = NilPtr
               /\ \A k \in DOMAIN tree[Reach(tree, last.recv.m, Front(SegsOf(last.key)))] :
                     tree[Reach(tree, last.recv.m, Front(SegsOf(last.key)))][k].kind # "ConfigMap"
                         => Invoke(tree, last.recv, "GetSection",
                                   PathOf(Append(Front(SegsOf(last.key)), k)), NilV).ret
                              = last.ret

\* GetSection was asked for a key that exists and holds a scalar, and
\* returned the nil section it also returns for a missing key.
C7_Witness ==
    /\ last.op = "GetSection" /\ last.recv = Section(0)
    /\ Exists(tree, 0, SegsOf(last.key))
    /\ Stored(tree, 0, SegsOf(last.key)).kind = "int"
    /\ last.ret = NilPtr

\* C8: no operation of a section changes the underlying mapping: every step
\* leaves every node of the tree with the keys and values it had.
C8_ReadOnly == [][tree' = tree]_vars

\* A lookup of a missing key has been made on the three-level tree.
C8_Witness ==
    /\ tree = TreeDeep
    /\ last.op \in {"GetSection", "GetValue"} /\ last.recv.kind = "section"
    /\ ~Exists(tree, last.recv.m, SegsOf(last.key))

\* C10: s.GetSection(P).GetSection(Q) is absent exactly when
\* s.GetSection(P:Q) is, and otherwise both are sections over the same node;
\* s.GetSection(P).GetValue(K) returns the value and error of s.GetValue(P:K).
C10_PathsCompose ==
    (last.op \in {"GetSection", "GetValue"} /\ last.via # <<>>)
        => /\ ~last.panic
           /\ last.op = "GetValue"
                => Outcome(last) = Outcome(Invoke(tree, Section(0), "GetValue",
                                       last.via[1] \o <<Delimiter>> \o last.key, NilV))
           /\ last.op = "GetSection"
                => /\ Absent(last.ret)
                        <=> Absent(Invoke(tree, Section(0), "GetSection",
                                last.via[1] \o <<Delimiter>> \o last.key, NilV).ret)
                   /\ ~Absent(last.ret)
                        => last.ret = Invoke(tree, Section(0), "GetSection",
                                last.via[1] \o <<Delimiter>> \o last.key, NilV).ret

-----------------------------------------------------------------------------
(* The merge phase: the per-source mappings folded into one, in registration *)
(* order, before the root section is constructed.  A mapping is a function   *)
(* from keys to values; a nested mapping is carried in the value itself.     *)

NestV(m) == [kind |-> "ConfigMap", m |-> m]

\* merge keeping the destination's value where both sides hold the key.
RECURSIVE merge_DestinationWins(_, _)
merge_DestinationWins(dst, src) ==
    [k \in DOMAIN dst \cup DOMAIN src |->
        IF k \notin DOMAIN dst THEN src[k]
        ELSE IF k \notin DOMAIN src THEN dst[k]
        ELSE IF dst[k].kind = "ConfigMap" /\ src[k].kind = "ConfigMap"
             THEN NestV(merge_DestinationWins(dst[k].m, src[k].m))
             ELSE dst[k]]

\* merge(destination, source): a key only in the source is inserted, two
\* nested mappings are merged recursively, anything else is replaced by the
\* source's value.
RECURSIVE merge(_, _)
merge(dst, src) ==
    [k \in DOMAIN dst \cup DOMAIN src |->
        IF k \notin DOMAIN src THEN dst[k]
        ELSE IF k \notin DOMAIN dst THEN src[k]
        ELSE IF dst[k].kind = "ConfigMap" /\ src[k].kind = "ConfigMap"
             THEN NestV(merge(dst[k].m, src[k].m))
             ELSE src[k]]

EmptyMap == <<>>

MapA1 == <<"a">> :> IntV(1)

MapA2 == <<"a">> :> IntV(2)

MapAB1 == <<"a">> :> NestV(<<"b">> :> IntV(1))

MapAC2 == <<"a">> :> NestV(<<"c">> :> IntV(2))

\* {a: {b: {a: false}, c: "x"}, b: 1}
MapDeepFalse ==
    (<<"a">> :> NestV((<<"b">> :> NestV(<<"a">> :> BoolV(FALSE)))
                      @@ (<<"c">> :> StrV(<<"x">>))))
    @@ (<<"b">> :> IntV(1))

\* {a: {b: {a: true, b: 2}}, c: {a: "y"}}
MapDeepTrue ==
    (<<"a">> :> NestV(<<"b">> :> NestV((<<"a">> :> BoolV(TRUE)) @@ (<<"b">> :> IntV(2)))))
    @@ (<<"c">> :> NestV(<<"a">> :> StrV(<<"y">>)))

\* {a: "s", b: {a: 3}}: a scalar where others nest, a mapping where others do not.
MapSwapped == (<<"a">> :> StrV(<<"s">>)) @@ (<<"b">> :> NestV(<<"a">> :> IntV(3)))

Sources == {EmptyMap, MapA1, MapA2, MapAB1, MapAC2, MapDeepFalse, MapDeepTrue, MapSwapped}

NoMerge == [done |-> <<>>]

InitMerge ==
    /\ acc = EmptyMap
    /\ srcs \in SeqsUpTo(Sources, MaxSources) \ {<<>>}
    /\ merged = NoMerge
    /\ tree = Idle /\ cur = Idle /\ pc = Idle /\ last = Idle /\ fault = Idle
    /\ thr = Idle /\ mtx = Idle

\* The builder merges the next registered source into the accumulated mapping.
MergeNext ==
    /\ srcs # <<>>
    /\ acc' = merge(acc, Head(srcs))
    /\ srcs' = Tail(srcs)
    /\ merged' = [done |-> Append(merged.done, Head(srcs)),
                  dst |-> acc, src |-> Head(srcs), out |-> acc']
    /\ UNCHANGED <<tree, cur, pc, last, fault, thr, mtx>>

NextMerge == MergeNext

SpecMerge == InitMerge /\ [][NextMerge]_vars

\* out is what the claim says the merge of src into dst is, key by key.
RECURSIVE IsMergeOf(_, _, _)
IsMergeOf(dst, src, out) ==
    /\ DOMAIN out = DOMAIN dst \cup DOMAIN src
    /\ \A k \in DOMAIN dst \ DOMAIN src : out[k] = dst[k]
    /\ \A k \in DOMAIN src :
          IF k \notin DOMAIN dst THEN out[k] = src[k]
          ELSE IF dst[k].kind = "ConfigMap" /\ src[k].kind = "ConfigMap"
               THEN /\ out[k].kind = "ConfigMap"
                    /\ IsMergeOf(dst[k].m, src[k].m, out[k].m)
               ELSE out[k] = src[k]

\* The paths of m that end in a scalar, as sequences of keys.
RECURSIVE LeafPaths(_)
LeafPaths(m) ==
    UNION {IF m[k].kind = "ConfigMap"
           THEN {<<k>> \o q : q \in LeafPaths(m[k].m)}
           ELSE {<<k>>} : k \in DOMAIN m}

\* The value at the end of a path of keys; NilV where the path leaves m.
RECURSIVE At(_, _)
At(m, q) ==
    IF Head(q) \notin DOMAIN m THEN NilV
    ELSE IF Len(q) = 1 THEN m[Head(q)]
    ELSE IF m[Head(q)].kind = "ConfigMap" THEN At(m[Head(q)].m, Tail(q))
    ELSE NilV

\* C6: merging a source into a destination takes the source's value for a
\* key the destination lacks, merges two nested mappings recursively, and
\* otherwise replaces the destination's value by the source's; keys only in
\* the destination are kept.  So the later source wins at every path it
\* sets: {a:1} then {a:2} gives {a:2}, {a:{b:1}} then {a:{c:2}} gives
\* {a:{b:1,c:2}}.
C6_Merge ==
    merged.done # <<>>
        => /\ IsMergeOf(merged.dst, merged.src, merged.out)
           /\ \A q \in LeafPaths(merged.src) : At(acc, q) = At(merged.src, q)
           /\ merged.done = <<MapA1, MapA2>> => acc = MapA2
           /\ merged.done = <<MapAB1, MapAC2>>
                => acc = (<<"a">> :> NestV((<<"b">> :> IntV(1)) @@ (<<"c">> :> IntV(2))))

\* Two sources that set the same nested path differently have been folded.
C6_Witness ==
    /\ merged.done = <<MapDeepFalse, MapDeepTrue>>
    /\ At(acc, <<<<"a">>, <<"b">>, <<"a">>>>) = BoolV(TRUE)
    /\ At(acc, <<<<"a">>, <<"c">>>>) = StrV(<<"x">>)

-----------------------------------------------------------------------------
(* Concurrent callers sharing the root section.  The root section object    *)
(* and its mutex are shared; every section getSection returns is a new      *)
(* object with a mutex of its own, known only to the thread that made it.   *)

Threads == 1..NumThreads

ConcTrees == {TreeDeep, TreeZero}

ConcOps == {"GetSection", "GetValue"}

\* a (a nested mapping), a:b (a value one level down, read through a
\* wrapper of the thread's own) and b:a (b holds a scalar).
ConcPaths == {<<"a">>, <<"a", ":", "b">>, <<"b", ":", "a">>}

\* Unlock called only in front of the return that hands out a section.
Unlocks_FoundOnly(found) == found

\* defer s.mtx.Unlock(): whether the mutex is released when getSection
\* returns, found telling which of its two return statements is taken.
Unlocks(found) == TRUE

\* The same for the deferred unlock of GetValue.
UnlocksValue(ok) == TRUE

Start == [pc |-> "start", held |-> {}]

InitConc ==
    /\ tree \in ConcTrees
    /\ thr = [t \in Threads |-> Start]
    /\ mtx = 0
    /\ cur = Idle /\ pc = Idle /\ last = Idle /\ fault = Idle
    /\ acc = Idle /\ srcs = Idle /\ merged = Idle

\* The mutex of the section thread t is about to lock is free: the root's
\* when t still works on the shared root section, else one of t's own.
MutexFree(t) == IF thr[t].shared THEN mtx = 0 ELSE "own" \notin thr[t].held

MutexName(t) == IF thr[t].shared THEN "root" ELSE "own"

OthersUnchanged == UNCHANGED <<cur, pc, last, fault, acc, srcs, merged>>

\* Thread t calls op(key) on the shared root section.
Begin(t) ==
    /\ thr[t].pc = "start"
    /\ \E op \in ConcOps, key \in ConcPaths :
          thr' = [thr EXCEPT ![t] =
                    [pc |-> IF op = "GetSection" THEN "gs_loop" ELSE "gv_loop",
                     op |-> op, key |-> key, sels |-> splitSections(key),
                     s |-> Section(0), shared |-> TRUE, held |-> {},
                     res |-> NilV, ret |-> NilV, err |-> NoErr]]
    /\ UNCHANGED <<tree, mtx>>
    /\ OthersUnchanged

\* GetSection's loop head and its two returns.
GsLoop(t) ==
    /\ thr[t].pc = "gs_loop"
    /\ thr' = [thr EXCEPT ![t] =
                 IF thr[t].sels = <<>>
                 THEN [@ EXCEPT !.pc = "done", !.ret = thr[t].s]
                 ELSE IF thr[t].s = NilPtr
                 THEN [@ EXCEPT !.pc = "done", !.ret = NilIface]
                 ELSE [@ EXCEPT !.pc = "lock"]]
    /\ UNCHANGED <<tree, mtx>>
    /\ OthersUnchanged

\* GetValue's loop over all selectors but the last, and its return of ErrNil
\* when a step gave no section.
GvLoop(t) ==
    /\ thr[t].pc = "gv_loop"
    /\ thr' = [thr EXCEPT ![t] =
                 IF thr[t].s = NilPtr
                 THEN [@ EXCEPT !.pc = "done", !.ret = NilV, !.err = ErrNil]
                 ELSE IF Len(thr[t].sels) > 1
                 THEN [@ EXCEPT !.pc = "lock"]
                 ELSE [@ EXCEPT !.pc = "vlock"]]
    /\ UNCHANGED <<tree, mtx>>
    /\ OthersUnchanged

\* getSection: s.mtx.Lock(), blocking while another thread holds the mutex.
Lock(t) ==
    /\ thr[t].pc = "lock"
    /\ MutexFree(t)
    /\ thr' = [thr EXCEPT ![t].pc = "read", ![t].held = @ \cup {MutexName(t)}]
    /\ mtx' = IF thr[t].shared THEN t ELSE mtx
    /\ UNCHANGED tree
    /\ OthersUnchanged

\* getSection: the map lookup and the type assertion, under the mutex.
Read(t) ==
    /\ thr[t].pc = "read"
    /\ tree' = getSection(tree, thr[t].s, Head(thr[t].sels)).h
    /\ thr' = [thr EXCEPT ![t].pc = "unlock",
                          ![t].res = getSection(tree, thr[t].s, Head(thr[t].sels)).s]
    /\ UNCHANGED mtx
    /\ OthersUnchanged

\* getSection returns: the deferred unlock runs, and the caller's s becomes
\* the new section (with a mutex of its own) or nil.
Unlock(t) ==
    /\ thr[t].pc = "unlock"
    /\ thr' = [thr EXCEPT ![t] =
                 [@ EXCEPT !.pc = IF thr[t].op = "GetSection" THEN "gs_loop" ELSE "gv_loop",
                           !.held = IF Unlocks(thr[t].res # NilPtr)
                                    THEN @ \ {MutexName(t)} ELSE @,
                           !.s = thr[t].res,
                           !.shared = FALSE,
                           !.sels = Tail(thr[t].sels)]]
    /\ mtx' = IF thr[t].shared /\ Unlocks(thr[t].res # NilPtr) THEN 0 ELSE mtx
    /\ UNCHANGED tree
    /\ OthersUnchanged

\* GetValue: s.mtx.Lock() on the section the last selector is looked up in.
VLock(t) ==
    /\ thr[t].pc = "vlock"
    /\ MutexFree(t)
    /\ thr' = [thr EXCEPT ![t].pc = "vread", ![t].held = @ \cup {MutexName(t)}]
    /\ mtx' = IF thr[t].shared THEN t ELSE mtx
    /\ UNCHANGED tree
    /\ OthersUnchanged

\* GetValue: v, ok := s.m[selector], under the mutex.
VRead(t) ==
    /\ thr[t].pc = "vread"
    /\ tree' = GetValueLookup([h |-> tree, s |-> thr[t].s], thr[t].sels[1]).h
    /\ thr' = [thr EXCEPT ![t].pc = "vunlock",
                          ![t].res = GetValueLookup([h |-> tree, s |-> thr[t].s],
                                                    thr[t].sels[1])]
    /\ UNCHANGED mtx
    /\ OthersUnchanged

\* GetValue returns: the deferred unlock runs.
VUnlock(t) ==
    /\ thr[t].pc = "vunlock"
    /\ thr' = [thr EXCEPT ![t] =
                 [@ EXCEPT !.pc = "done",
                           !.held = IF UnlocksValue(thr[t].res.err = NoErr)
                                    THEN @ \ {MutexName(t)} ELSE @,
                           !.ret = thr[t].res.v,
                           !.err = thr[t].res.err,
                           !.res = NilV]]
    /\ mtx' = IF thr[t].shared /\ UnlocksValue(thr[t].res.err = NoErr) THEN 0 ELSE mtx
    /\ UNCHANGED tree
    /\ OthersUnchanged

Step(t) ==
    \/ Begin(t)
    \/ GsLoop(t)
    \/ GvLoop(t)
    \/ Lock(t)
    \/ Read(t)
    \/ Unlock(t)
    \/ VLock(t)
    \/ VRead(t)
    \/ VUnlock(t)

NextConc == \E t \in Threads : Step(t)

\* Go schedules every runnable goroutine: a thread that can take its next
\* step does not wait forever.
SpecConc ==
    /\ InitConc
    /\ [][NextConc]_vars
    /\ \A t \in Threads : WF_vars(Step(t))

\* What thread t's call returns when it runs alone.
Alone(t) == Invoke(tree, Section(0), thr[t].op, thr[t].key, NilV)

C9_Safe ==
    /\ tree \in ConcTrees
    /\ \A t \in Threads :
          /\ Cardinality(thr[t].held) <= 1
          /\ thr[t].pc = "done"
                => /\ thr[t].held = {}
                   /\ thr[t].ret = Alone(t).ret
                   /\ thr[t].err = Alone(t).err
    /\ mtx # 0 => "root" \in thr[mtx].held

\* C9: when several threads call GetSection and GetValue concurrently on the
\* same built tree, under every interleaving each call completes, a thread
\* holds at most one section mutex at a time and none once its call has
\* returned, no call writes the mapping, and each call returns what it
\* returns when run alone.
C9_Concurrent ==
    /\ []C9_Safe
    /\ [][tree' = tree]_vars
    /\ \A t \in Threads : <>(thr[t].pc = "done")

\* Both threads have completed calls that went through the root's mutex and
\* then read the same child mapping through wrappers of their own.
C9_Witness ==
    /\ tree = TreeDeep
    /\ \A t \in Threads :
          /\ thr[t].pc = "done"
          /\ thr[t].key = <<"a", ":", "b">>
          /\ thr[t].op = "GetValue"
          /\ thr[t].ret = StrV(<<"4", "2">>)

=============================================================================
